---- MODULE Spec2Model ----
(***************************************************************************)
(* The turn-taking loop of the code-editing agent (Agent.Run, executeTool, *)
(* the three file tools and main) as a state machine.                      *)
(*                                                                         *)
(* Strings are sequences of symbols: a file's content is a sequence of     *)
(* characters, a fixed message is a one-symbol sequence, a path is the     *)
(* sequence of its segments ("" is <<>>, "d/f" is <<"d", "f">>).           *)
(***************************************************************************)
EXTENDS Integers, Sequences, FiniteSets, TLC

VARIABLES
    conversation,   \* Run's local slice of messages: the transcript
    readUserInput,  \* Run's local flag
    pc,             \* where Run is: "loop", "infer", "blocks", "returned", "crashed", "exited"
    message,        \* the content blocks of the reply being processed
    idx,            \* position of the range loop over message.Content
    toolResults,    \* Run's local slice of tool-result blocks
    ret,            \* Run's return value: NoErr (nil) or the gateway's error; Running before
    fs,             \* the working directory: path -> node
    stdout,         \* what the process has printed
    exitCode,       \* the process's exit status, -1 while it runs
    nextId,         \* the gateway's source of tool_use ids (unique per block)
    calls,          \* the calls made on the input and gateway interfaces, in order
    sent,           \* the conversation passed to the latest runInference call
    gatewayErr      \* the error the gateway returned last, NoErr if none

vars == <<conversation, readUserInput, pc, message, idx, toolResults, ret, fs,
          stdout, exitCode, nextId, calls, sent, gatewayErr>>

----------------------------------------------------------------------------
(* Bounds *)

\* content blocks in one model reply
MaxBlocks == 2
\* tool_use blocks the gateway hands out in one session
MaxToolUses == 2
\* runInference calls in one session
MaxInferences == 2
\* lines the human types in one session
MaxInputs == 2

----------------------------------------------------------------------------
(* Values *)

NoErr == "nil"
Running == "running"
GatewayErrors == {"gateway fault"}

\* anthropic.NewTextBlock / a "text" block of a reply
TextBlock(t) == [type |-> "text", text |-> t, id |-> 0, name |-> "", input |-> <<>>,
                 is_error |-> FALSE]

\* a "tool_use" block of a reply
ToolUseBlock(id, name, input) ==
    [type |-> "tool_use", text |-> <<>>, id |-> id, name |-> name, input |-> <<input>>,
     is_error |-> FALSE]

\* anthropic.NewToolResultBlock(id, content, isError)
NewToolResultBlock(id, content, isError) ==
    [type |-> "tool_result", text |-> content, id |-> id, name |-> "", input |-> <<>>,
     is_error |-> isError]

\* anthropic.NewUserMessage(blocks...)
NewUserMessage(blocks) == [role |-> "user", content |-> blocks]

\* message.ToParam(): the reply as a message of the conversation
ToParam(blocks) == [role |-> "assistant", content |-> blocks]

----------------------------------------------------------------------------
(* Raw tool input (json.RawMessage) and encoding/json *)

JAbsent == [t |-> "absent", v |-> <<>>]
JNumber == [t |-> "number", v |-> <<>>]
JString(s) == [t |-> "string", v |-> s]

\* a JSON object with the three members the tools look at (others are ignored)
RawObject(p, o, n) == [kind |-> "object", path |-> p, old_str |-> o, new_str |-> n]

\* a JSON value that is no object at all, e.g. [1]
RawArray == [kind |-> "array", path |-> JAbsent, old_str |-> JAbsent, new_str |-> JAbsent]

JsonTypeError == <<"json: cannot unmarshal into Go value">>

\* one struct field of type string: an absent member leaves "", a string sets
\* it, a number is an UnmarshalTypeError
FieldError(j) == j.t = "number"

FieldValue(j) == IF j.t = "string" THEN j.v ELSE <<>>

\* json.Unmarshal(input, &ReadFileInput{}) and &ListFilesInput{}: only "path"
UnmarshalPath(raw) ==
    IF raw.kind # "object" THEN [err |-> TRUE, Path |-> <<>>]
    ELSE [err |-> FieldError(raw.path), Path |-> FieldValue(raw.path)]

\* json.Unmarshal(input, &EditFileInput{})
UnmarshalEdit(raw) ==
    IF raw.kind # "object"
    THEN [err |-> TRUE, Path |-> <<>>, OldStr |-> <<>>, NewStr |-> <<>>]
    ELSE [err |-> FieldError(raw.path) \/ FieldError(raw.old_str) \/ FieldError(raw.new_str),
          Path |-> FieldValue(raw.path),
          OldStr |-> FieldValue(raw.old_str),
          NewStr |-> FieldValue(raw.new_str)]

----------------------------------------------------------------------------
(* Strings *)

IsPrefix(s, t) == Len(s) <= Len(t) /\ SubSeq(t, 1, Len(s)) = s

RECURSIVE ReplaceFrom(_, _, _)
\* strings.Replace for a non-empty old: left to right, non-overlapping
ReplaceFrom(s, old, new) ==
    IF Len(s) < Len(old) THEN s
    ELSE IF IsPrefix(old, s)
         THEN new \o ReplaceFrom(SubSeq(s, Len(old) + 1, Len(s)), old, new)
         ELSE <<Head(s)>> \o ReplaceFrom(Tail(s), old, new)

RECURSIVE InsertAround(_, _)
\* strings.Replace for an empty old: new before every character and at the end
InsertAround(s, new) ==
    IF s = <<>> THEN new ELSE new \o <<Head(s)>> \o InsertAround(Tail(s), new)

\* strings.Replace replacing the first occurrence only
Replace_FirstOnly(s, old, new) ==
    IF old = new THEN s
    ELSE IF old = <<>> THEN new \o s
    ELSE IF \E i \in 1..Len(s) : IsPrefix(old, SubSeq(s, i, Len(s)))
    THEN LET i == CHOOSE j \in 1..Len(s) :
                     /\ IsPrefix(old, SubSeq(s, j, Len(s)))
                     /\ \A k \in 1..(j - 1) : ~IsPrefix(old, SubSeq(s, k, Len(s)))
         IN  SubSeq(s, 1, i - 1) \o new \o SubSeq(s, i + Len(old), Len(s))
    ELSE s

\* strings.Replace(s, old, new, -1)
Replace(s, old, new) ==
    IF old = new THEN s
    ELSE IF old = <<>> THEN InsertAround(s, new)
    ELSE ReplaceFrom(s, old, new)

----------------------------------------------------------------------------
(* The file system: existing path -> node; <<>> is the working directory *)

Dir == [kind |-> "dir", content |-> <<>>]
File(c) == [kind |-> "file", content |-> c]

\* segment names in the order filepath.Walk visits them (lexical)
NameOrder == <<"a.txt", "d", "f", "sub">>

Exists(f, p) == p \in DOMAIN f

RECURSIVE Clean(_)
\* the path with its "." segments dropped
Clean(p) ==
    IF p = <<>> THEN <<>>
    ELSE IF Head(p) = "." THEN Clean(Tail(p)) ELSE <<Head(p)>> \o Clean(Tail(p))

\* path.Dir
ParentOf(p) == SubSeq(p, 1, Len(p) - 1)

\* some proper prefix of p is missing
MissingParent(f, p) == \E n \in 0..(Len(p) - 1) : ~Exists(f, SubSeq(p, 1, n))

\* some proper prefix of p is a regular file
FileInTheWay(f, p) ==
    \E n \in 0..(Len(p) - 1) :
        Exists(f, SubSeq(p, 1, n)) /\ f[SubSeq(p, 1, n)].kind = "file"

ErrNotExist(p) == <<"open">> \o p \o <<"no such file or directory">>
ErrIsDir(p) == <<"read">> \o p \o <<"is a directory">>
ErrNotDir(p) == <<"open">> \o p \o <<"not a directory">>

\* os.ReadFile(path)
OsReadFile(f, path) ==
    LET p == Clean(path) IN
    IF path = <<>> \/ (~FileInTheWay(f, p) /\ ~Exists(f, p))
    THEN [err |-> ErrNotExist(path), notExist |-> TRUE, data |-> <<>>]
    ELSE IF FileInTheWay(f, p)
    THEN [err |-> ErrNotDir(path), notExist |-> FALSE, data |-> <<>>]
    ELSE IF f[p].kind = "dir"
    THEN [err |-> ErrIsDir(path), notExist |-> FALSE, data |-> <<>>]
    ELSE [err |-> <<>>, notExist |-> FALSE, data |-> f[p].content]

\* os.WriteFile(path, data, 0644)
OsWriteFile(f, path, data) ==
    LET p == Clean(path) IN
    IF path = <<>> \/ MissingParent(f, p)
    THEN [err |-> ErrNotExist(path), fs |-> f]
    ELSE IF FileInTheWay(f, p) THEN [err |-> ErrNotDir(path), fs |-> f]
    ELSE IF Exists(f, p) /\ f[p].kind = "dir" THEN [err |-> ErrIsDir(path), fs |-> f]
    ELSE [err |-> <<>>, fs |-> (p :> File(data)) @@ f]

\* os.MkdirAll(dir, 0755)
OsMkdirAll(f, dir) ==
    LET p == Clean(dir) IN
    IF FileInTheWay(f, p) \/ (Exists(f, p) /\ f[p].kind = "file")
    THEN [err |-> <<"mkdir">> \o dir \o <<"not a directory">>, fs |-> f]
    ELSE [err |-> <<>>,
          fs |-> [q \in {SubSeq(p, 1, n) : n \in 0..Len(p)} \ DOMAIN f |-> Dir] @@ f]

----------------------------------------------------------------------------
(* The tools: func(input json.RawMessage) (string, error), here a record    *)
(* [panic, err, out, fs]: out is the string returned, or err.Error()        *)

Returned(out, f) == [panic |-> FALSE, err |-> FALSE, out |-> out, fs |-> f]
Failed(msg, f) == [panic |-> FALSE, err |-> TRUE, out |-> msg, fs |-> f]
Panicked(msg, f) == [panic |-> TRUE, err |-> TRUE, out |-> msg, fs |-> f]

ReadFile(f, input) ==
    LET readFileInput == UnmarshalPath(input) IN
    IF readFileInput.err THEN Panicked(JsonTypeError, f)
    ELSE LET r == OsReadFile(f, readFileInput.Path) IN
         IF r.err # <<>> THEN Failed(r.err, f) ELSE Returned(r.data, f)

RECURSIVE JoinPath(_)
\* the segments of a relative path joined by "/"
JoinPath(p) ==
    IF Len(p) <= 1 THEN p ELSE <<Head(p), "/">> \o JoinPath(Tail(p))

RECURSIVE WalkChildren(_, _, _, _)
\* filepath.Walk below root \o rel, from the i-th name on: the entries the
\* callback of ListFiles appends, directories suffixed with "/"
WalkChildren(f, root, rel, i) ==
    IF i > Len(NameOrder) THEN <<>>
    ELSE LET c == rel \o <<NameOrder[i]>>
             here == IF ~Exists(f, root \o c) THEN <<>>
                     ELSE IF f[root \o c].kind = "dir"
                     THEN <<JoinPath(c) \o <<"/">>>> \o WalkChildren(f, root, c, 1)
                     ELSE <<JoinPath(c)>>
         IN  here \o WalkChildren(f, root, rel, i + 1)

RECURSIVE MarshalEntries(_)
MarshalEntries(files) ==
    IF files = <<>> THEN <<>>
    ELSE <<"\"">> \o Head(files) \o <<"\"">>
         \o (IF Len(files) > 1 THEN <<",">> ELSE <<>>) \o MarshalEntries(Tail(files))

\* json.Marshal(files) of a []string: a nil slice is null
Marshal(files) ==
    IF files = <<>> THEN <<"null">> ELSE <<"[">> \o MarshalEntries(files) \o <<"]">>

ListFiles(f, input) ==
    LET listFilesInput == UnmarshalPath(input)
        dir == IF listFilesInput.Path # <<>> THEN listFilesInput.Path ELSE <<".">>
        root == Clean(dir)
    IN  IF listFilesInput.err THEN Panicked(JsonTypeError, f)
        ELSE IF FileInTheWay(f, root)
        THEN Failed(<<"lstat">> \o dir \o <<"not a directory">>, f)
        ELSE IF ~Exists(f, root)
        THEN Failed(<<"lstat">> \o dir \o <<"no such file or directory">>, f)
        ELSE IF f[root].kind = "file" THEN Returned(Marshal(<<>>), f)
        ELSE Returned(Marshal(WalkChildren(f, root, <<>>, 1)), f)

\* createNewFile writing the file without making its directory first
createNewFile_NoMkdir(f, filePath, content) ==
    LET wrote == OsWriteFile(f, filePath, content)
    IN  IF wrote.err # <<>>
        THEN Failed(<<"failed to create file:">> \o wrote.err, f)
        ELSE Returned(<<"Successfully created file">> \o filePath, wrote.fs)

createNewFile(f, filePath, content) ==
    LET dir == ParentOf(Clean(filePath))
        made == IF dir # <<>> THEN OsMkdirAll(f, dir) ELSE [err |-> <<>>, fs |-> f]
        wrote == OsWriteFile(made.fs, filePath, content)
    IN  IF made.err # <<>>
        THEN Failed(<<"failed to create directory:">> \o made.err, f)
        ELSE IF wrote.err # <<>>
        THEN Failed(<<"failed to create file:">> \o wrote.err, made.fs)
        ELSE Returned(<<"Successfully created file">> \o filePath, wrote.fs)

\* EditFile without the test that old_str and new_str differ
EditFile_NoEqualCheck(f, input) ==
    LET editFileInput == UnmarshalEdit(input)
        r == OsReadFile(f, editFileInput.Path)
        oldContent == r.data
        newContent == Replace(oldContent, editFileInput.OldStr, editFileInput.NewStr)
        wrote == OsWriteFile(f, editFileInput.Path, newContent)
    IN  IF editFileInput.err THEN Failed(JsonTypeError, f)
        ELSE IF editFileInput.Path = <<>>
        THEN Failed(<<"invalid input parameters">>, f)
        ELSE IF r.err # <<>>
        THEN IF r.notExist /\ editFileInput.OldStr = <<>>
             THEN createNewFile(f, editFileInput.Path, editFileInput.NewStr)
             ELSE Failed(r.err, f)
        ELSE IF oldContent = newContent /\ editFileInput.OldStr # <<>>
        THEN Failed(<<"old_str not found in file">>, f)
        ELSE IF wrote.err # <<>> THEN Failed(wrote.err, f)
        ELSE Returned(<<"OK">>, wrote.fs)

\* EditFile treating a replacement that changes nothing as a success
EditFile_SilentNoOp(f, input) ==
    LET editFileInput == UnmarshalEdit(input)
        r == OsReadFile(f, editFileInput.Path)
        oldContent == r.data
        newContent == Replace(oldContent, editFileInput.OldStr, editFileInput.NewStr)
        wrote == OsWriteFile(f, editFileInput.Path, newContent)
    IN  IF editFileInput.err THEN Failed(JsonTypeError, f)
        ELSE IF editFileInput.Path = <<>> \/ editFileInput.OldStr = editFileInput.NewStr
        THEN Failed(<<"invalid input parameters">>, f)
        ELSE IF r.err # <<>>
        THEN IF r.notExist /\ editFileInput.OldStr = <<>>
             THEN createNewFile(f, editFileInput.Path, editFileInput.NewStr)
             ELSE Failed(r.err, f)
        ELSE IF wrote.err # <<>> THEN Failed(wrote.err, f)
        ELSE Returned(<<"OK">>, wrote.fs)

EditFile(f, input) ==
    LET editFileInput == UnmarshalEdit(input)
        r == OsReadFile(f, editFileInput.Path)
        oldContent == r.data
        newContent == Replace(oldContent, editFileInput.OldStr, editFileInput.NewStr)
        wrote == OsWriteFile(f, editFileInput.Path, newContent)
    IN  IF editFileInput.err THEN Failed(JsonTypeError, f)
        ELSE IF editFileInput.Path = <<>> \/ editFileInput.OldStr = editFileInput.NewStr
        THEN Failed(<<"invalid input parameters">>, f)
        ELSE IF r.err # <<>>
        THEN IF r.notExist /\ editFileInput.OldStr = <<>>
             THEN createNewFile(f, editFileInput.Path, editFileInput.NewStr)
             ELSE Failed(r.err, f)
        ELSE IF oldContent = newContent /\ editFileInput.OldStr # <<>>
        THEN Failed(<<"old_str not found in file">>, f)
        ELSE IF wrote.err # <<>> THEN Failed(wrote.err, f)
        ELSE Returned(<<"OK">>, wrote.fs)

\* a.tools: the registry built in main
Tools == <<"read_file", "list_files", "edit_file">>

\* toolDef.Function(input)
ToolFunction(name, f, input) ==
    CASE name = "read_file" -> ReadFile(f, input)
      [] name = "list_files" -> ListFiles(f, input)
      [] name = "edit_file" -> EditFile(f, input)

\* the trace line executeTool prints before it runs the tool
ToolTrace(name, input) == [tag |-> "tool", text |-> <<name>>, arg |-> <<input>>]

\* executeTool reporting an unknown name as a success
\* executeTool reporting every outcome of a tool function as a success
executeTool_DropsErrorFlag(f, id, name, input) ==
    IF ~\E i \in 1..Len(Tools) : Tools[i] = name
    THEN [panic |-> FALSE, found |-> FALSE, fs |-> f,
          result |-> NewToolResultBlock(id, <<"tool not found">>, TRUE)]
    ELSE LET r == ToolFunction(name, f, input) IN
         [panic |-> r.panic, found |-> TRUE, fs |-> r.fs,
          result |-> NewToolResultBlock(id, r.out, FALSE)]

executeTool_NotFoundIsSuccess(f, id, name, input) ==
    IF ~\E i \in 1..Len(Tools) : Tools[i] = name
    THEN [panic |-> FALSE, found |-> FALSE, fs |-> f,
          result |-> NewToolResultBlock(id, <<"tool not found">>, FALSE)]
    ELSE LET r == ToolFunction(name, f, input) IN
         [panic |-> r.panic, found |-> TRUE, fs |-> r.fs,
          result |-> NewToolResultBlock(id, r.out, r.err)]

\* Agent.executeTool: [panic, found, result, fs]
executeTool(f, id, name, input) ==
    IF ~\E i \in 1..Len(Tools) : Tools[i] = name
    THEN [panic |-> FALSE, found |-> FALSE, fs |-> f,
          result |-> NewToolResultBlock(id, <<"tool not found">>, TRUE)]
    ELSE LET r == ToolFunction(name, f, input) IN
         [panic |-> r.panic, found |-> TRUE, fs |-> r.fs,
          result |-> NewToolResultBlock(id, r.out, r.err)]

----------------------------------------------------------------------------
(* The environment: what the human types and what the gateway replies *)

UserInputs == {<<"h">>}
ReplyTexts == {<<"t">>}

ToolNames == {"read_file", "list_files", "edit_file", "no_such_tool"}

\* {"path": "f", "old_str": "a", "new_str": "b"}
GoodInput == RawObject(JString(<<"f">>), JString(<<"a">>), JString(<<"b">>))
\* {"path": 1}: not decodable into any of the tools' input structs
BadInput == RawObject(JNumber, JAbsent, JAbsent)
RawInputs == {GoodInput, BadInput}

\* the invocations the model makes: every registered tool with either input,
\* and an unregistered name (executeTool does not look at its input)
ToolCalls ==
    {c \in [name : ToolNames, input : RawInputs] :
        c.name = "no_such_tool" => c.input = GoodInput}

\* what one content block of a reply can be, its id left open
BlockChoices ==
    [type : {"text"}, text : ReplyTexts, name : {""}, input : {<<>>}]
    \cup {[type |-> "tool_use", text |-> <<>>, name |-> c.name, input |-> <<c.input>>] :
             c \in ToolCalls}

ReplyShapes == UNION {[1..l -> BlockChoices] : l \in 0..MaxBlocks}

IsToolUse(b) == b.type = "tool_use"

NumToolUses(blocks) == Cardinality({i \in DOMAIN blocks : IsToolUse(blocks[i])})

\* the reply of that shape, its tool_use blocks given the ids n, n+1, ...
Reply(shape, n) ==
    [i \in DOMAIN shape |->
        IF IsToolUse(shape[i])
        THEN ToolUseBlock(n + NumToolUses(SubSeq(shape, 1, i - 1)),
                          shape[i].name, shape[i].input[1])
        ELSE TextBlock(shape[i].text)]

NumCalls(op, ok) ==
    Cardinality({i \in DOMAIN calls : calls[i].op = op /\ calls[i].ok = ok})

----------------------------------------------------------------------------
(* Run and main *)

Banner == [tag |-> "banner", text |-> <<"Chat with Claude (use 'ctrl+C' to exit)">>,
           arg |-> <<>>]
\* requestPrompt
Prompt == [tag |-> "You", text |-> <<>>, arg |-> <<>>]
\* responsePrompt
Response(t) == [tag |-> "Claude", text |-> t, arg |-> <<>>]
ErrorLine(e) == [tag |-> "Error", text |-> <<e>>, arg |-> <<>>]
PanicLine(m) == [tag |-> "panic", text |-> m, arg |-> <<>>]

InitialFS == (<<>> :> Dir) @@ (<<"f">> :> File(<<"a">>))

Init ==
    /\ conversation = <<>>
    /\ readUserInput = TRUE
    /\ pc = "loop"
    /\ message = <<>>
    /\ idx = 1
    /\ toolResults = <<>>
    /\ ret = Running
    /\ fs = InitialFS
    /\ stdout = <<Banner>>
    /\ exitCode = -1
    /\ nextId = 1
    /\ calls = <<>>
    /\ sent = <<>>
    /\ gatewayErr = NoErr

\* GetUserMessage starting the conversation afresh instead of appending
GetUserMessage_DropsHistory ==
    /\ pc = "loop" /\ readUserInput
    /\ NumCalls("getUserMessage", TRUE) < MaxInputs
    /\ \E userInput \in UserInputs :
         conversation' = <<NewUserMessage(<<TextBlock(userInput)>>)>>
    /\ stdout' = Append(stdout, Prompt)
    /\ calls' = Append(calls, [op |-> "getUserMessage", ok |-> TRUE])
    /\ pc' = "infer"
    /\ UNCHANGED <<readUserInput, message, idx, toolResults, ret, fs, exitCode, nextId,
                   sent, gatewayErr>>

\* getUserMessage returns a line: it becomes a user message
GetUserMessage ==
    /\ pc = "loop" /\ readUserInput
    /\ NumCalls("getUserMessage", TRUE) < MaxInputs
    /\ \E userInput \in UserInputs :
         conversation' = Append(conversation, NewUserMessage(<<TextBlock(userInput)>>))
    /\ stdout' = Append(stdout, Prompt)
    /\ calls' = Append(calls, [op |-> "getUserMessage", ok |-> TRUE])
    /\ pc' = "infer"
    /\ UNCHANGED <<readUserInput, message, idx, toolResults, ret, fs, exitCode, nextId,
                   sent, gatewayErr>>

\* EndOfInput returning an error instead of nil
EndOfInput_ReturnsError ==
    /\ pc = "loop" /\ readUserInput
    /\ stdout' = Append(stdout, Prompt)
    /\ calls' = Append(calls, [op |-> "getUserMessage", ok |-> FALSE])
    /\ ret' = "EOF"
    /\ pc' = "returned"
    /\ UNCHANGED <<conversation, readUserInput, message, idx, toolResults, fs, exitCode,
                   nextId, sent, gatewayErr>>

\* EndOfInput reading the input whatever readUserInput says
EndOfInput_IgnoresFlag ==
    /\ pc = "loop"
    /\ stdout' = Append(stdout, Prompt)
    /\ calls' = Append(calls, [op |-> "getUserMessage", ok |-> FALSE])
    /\ ret' = NoErr
    /\ pc' = "returned"
    /\ UNCHANGED <<conversation, readUserInput, message, idx, toolResults, fs, exitCode,
                   nextId, sent, gatewayErr>>

\* getUserMessage returns ok = false: break, return nil
EndOfInput ==
    /\ pc = "loop" /\ readUserInput
    /\ stdout' = Append(stdout, Prompt)
    /\ calls' = Append(calls, [op |-> "getUserMessage", ok |-> FALSE])
    /\ ret' = NoErr
    /\ pc' = "returned"
    /\ UNCHANGED <<conversation, readUserInput, message, idx, toolResults, fs, exitCode,
                   nextId, sent, gatewayErr>>

\* readUserInput is false: the iteration goes straight to runInference
SkipUserInput ==
    /\ pc = "loop" /\ ~readUserInput
    /\ pc' = "infer"
    /\ UNCHANGED <<conversation, readUserInput, message, idx, toolResults, ret, fs, stdout,
                   exitCode, nextId, calls, sent, gatewayErr>>

\* runInference returns a message: it is appended and its blocks are ranged over
RunInference ==
    /\ pc = "infer"
    /\ NumCalls("runInference", TRUE) < MaxInferences
    /\ \E shape \in ReplyShapes :
         /\ nextId - 1 + NumToolUses(shape) <= MaxToolUses
         /\ message' = Reply(shape, nextId)
         /\ nextId' = nextId + NumToolUses(shape)
    /\ conversation' = Append(conversation, ToParam(message'))
    /\ sent' = conversation
    /\ gatewayErr' = NoErr
    /\ calls' = Append(calls, [op |-> "runInference", ok |-> TRUE])
    /\ toolResults' = <<>>
    /\ idx' = 1
    /\ pc' = "blocks"
    /\ UNCHANGED <<readUserInput, ret, fs, stdout, exitCode>>

\* InferenceFails trying the call again instead of returning
InferenceFails_Retries ==
    /\ pc = "infer"
    /\ NumCalls("runInference", FALSE) < 1
    /\ \E e \in GatewayErrors : gatewayErr' = e
    /\ sent' = conversation
    /\ calls' = Append(calls, [op |-> "runInference", ok |-> FALSE])
    /\ UNCHANGED <<conversation, readUserInput, pc, message, idx, toolResults, ret, fs,
                   stdout, exitCode, nextId>>

\* runInference returns an error: Run returns it
InferenceFails ==
    /\ pc = "infer"
    /\ \E e \in GatewayErrors : gatewayErr' = e /\ ret' = e
    /\ sent' = conversation
    /\ calls' = Append(calls, [op |-> "runInference", ok |-> FALSE])
    /\ pc' = "returned"
    /\ UNCHANGED <<conversation, readUserInput, message, idx, toolResults, fs, stdout,
                   exitCode, nextId>>

\* case "text"
PrintText ==
    /\ pc = "blocks" /\ idx <= Len(message)
    /\ message[idx].type = "text"
    /\ stdout' = Append(stdout, Response(message[idx].text))
    /\ idx' = idx + 1
    /\ UNCHANGED <<conversation, readUserInput, pc, message, toolResults, ret, fs, exitCode,
                   nextId, calls, sent, gatewayErr>>

\* ExecuteTool running every tool on the file system as it was, its writes lost
ExecuteTool_StaleFs ==
    /\ pc = "blocks" /\ idx <= Len(message)
    /\ message[idx].type = "tool_use"
    /\ LET b == message[idx]
           r == executeTool(fs, b.id, b.name, b.input[1])
           traced == IF r.found THEN Append(stdout, ToolTrace(b.name, b.input[1]))
                     ELSE stdout
       IN  IF r.panic
           THEN /\ pc' = "crashed"
                /\ exitCode' = 2
                /\ stdout' = Append(traced, PanicLine(r.result.text))
                /\ UNCHANGED <<toolResults, idx, fs>>
           ELSE /\ toolResults' = Append(toolResults, r.result)
                /\ idx' = idx + 1
                /\ fs' = fs
                /\ stdout' = traced
                /\ UNCHANGED <<pc, exitCode>>
    /\ UNCHANGED <<conversation, readUserInput, message, ret, nextId, calls, sent,
                   gatewayErr>>

\* case "tool_use": executeTool, its result appended to toolResults; a panic
\* of the tool function is recovered nowhere and ends the process with status 2
ExecuteTool ==
    /\ pc = "blocks" /\ idx <= Len(message)
    /\ message[idx].type = "tool_use"
    /\ LET b == message[idx]
           r == executeTool(fs, b.id, b.name, b.input[1])
           traced == IF r.found THEN Append(stdout, ToolTrace(b.name, b.input[1]))
                     ELSE stdout
       IN  IF r.panic
           THEN /\ pc' = "crashed"
                /\ exitCode' = 2
                /\ stdout' = Append(traced, PanicLine(r.result.text))
                /\ UNCHANGED <<toolResults, idx, fs>>
           ELSE /\ toolResults' = Append(toolResults, r.result)
                /\ idx' = idx + 1
                /\ fs' = r.fs
                /\ stdout' = traced
                /\ UNCHANGED <<pc, exitCode>>
    /\ UNCHANGED <<conversation, readUserInput, message, ret, nextId, calls, sent,
                   gatewayErr>>

\* EndOfBlocks appending the results last to first
EndOfBlocks_Reversed ==
    /\ pc = "blocks" /\ idx > Len(message)
    /\ IF Len(toolResults) = 0
       THEN readUserInput' = TRUE /\ UNCHANGED conversation
       ELSE /\ readUserInput' = FALSE
            /\ conversation' = Append(conversation, NewUserMessage(
                   [i \in 1..Len(toolResults) |-> toolResults[Len(toolResults) + 1 - i]]))
    /\ pc' = "loop"
    /\ UNCHANGED <<message, idx, toolResults, ret, fs, stdout, exitCode, nextId, calls,
                   sent, gatewayErr>>

\* EndOfBlocks appending a tool-result message even when there is no result
EndOfBlocks_AlwaysAppends ==
    /\ pc = "blocks" /\ idx > Len(message)
    /\ readUserInput' = (Len(toolResults) = 0)
    /\ conversation' = Append(conversation, NewUserMessage(toolResults))
    /\ pc' = "loop"
    /\ UNCHANGED <<message, idx, toolResults, ret, fs, stdout, exitCode, nextId, calls,
                   sent, gatewayErr>>

\* EndOfBlocks never clearing readUserInput
EndOfBlocks_AlwaysReads ==
    /\ pc = "blocks" /\ idx > Len(message)
    /\ readUserInput' = TRUE
    /\ IF Len(toolResults) = 0
       THEN UNCHANGED conversation
       ELSE conversation' = Append(conversation, NewUserMessage(toolResults))
    /\ pc' = "loop"
    /\ UNCHANGED <<message, idx, toolResults, ret, fs, stdout, exitCode, nextId, calls,
                   sent, gatewayErr>>

\* EndOfBlocks leaving the results out of the conversation
EndOfBlocks_DropsResults ==
    /\ pc = "blocks" /\ idx > Len(message)
    /\ readUserInput' = (Len(toolResults) = 0)
    /\ pc' = "loop"
    /\ UNCHANGED <<conversation, message, idx, toolResults, ret, fs, stdout, exitCode,
                   nextId, calls, sent, gatewayErr>>

\* EndOfBlocks never handing the turn back to the human
EndOfBlocks_NeverReads ==
    /\ pc = "blocks" /\ idx > Len(message)
    /\ readUserInput' = FALSE
    /\ conversation' = IF Len(toolResults) = 0 THEN conversation
                       ELSE Append(conversation, NewUserMessage(toolResults))
    /\ pc' = "loop"
    /\ UNCHANGED <<message, idx, toolResults, ret, fs, stdout, exitCode, nextId, calls,
                   sent, gatewayErr>>

\* after the range loop: no tool result, read the human next; otherwise the
\* results become one user message and the human is not read
EndOfBlocks ==
    /\ pc = "blocks" /\ idx > Len(message)
    /\ IF Len(toolResults) = 0
       THEN readUserInput' = TRUE /\ UNCHANGED conversation
       ELSE /\ readUserInput' = FALSE
            /\ conversation' = Append(conversation, NewUserMessage(toolResults))
    /\ pc' = "loop"
    /\ UNCHANGED <<message, idx, toolResults, ret, fs, stdout, exitCode, nextId, calls,
                   sent, gatewayErr>>

\* main: report Run's error, if any, and return
MainReturns ==
    /\ pc = "returned"
    /\ stdout' = IF ret # NoErr THEN Append(stdout, ErrorLine(ret)) ELSE stdout
    /\ exitCode' = 0
    /\ pc' = "exited"
    /\ UNCHANGED <<conversation, readUserInput, message, idx, toolResults, ret, fs, nextId,
                   calls, sent, gatewayErr>>

Next ==
    \/ GetUserMessage
    \/ EndOfInput
    \/ SkipUserInput
    \/ RunInference
    \/ InferenceFails
    \/ PrintText
    \/ ExecuteTool
    \/ EndOfBlocks
    \/ MainReturns

Spec == Init /\ [][Next]_vars

----------------------------------------------------------------------------
(* Reading the transcript *)

Last(q) == q[Len(q)]

IsModelTurn(t) == t.role = "assistant"

\* the tool_use blocks of a turn, in order
ToolUsesOf(t) == SelectSeq(t.content, IsToolUse)

IdsOf(blocks) == [i \in DOMAIN blocks |-> blocks[i].id]

\* a user message made of tool_result blocks only
IsToolResultTurn(t) ==
    /\ t.role = "user"
    /\ t.content # <<>>
    /\ \A j \in DOMAIN t.content : t.content[j].type = "tool_result"

\* a user message holding the one text block of a typed line
IsHumanTurn(t) ==
    /\ t.role = "user"
    /\ Len(t.content) = 1
    /\ t.content[1].type = "text"

\* the range loop over turn i's blocks is over: a later turn exists, or Run
\* is neither inside the loop nor dead in it
BatchDone(i) == i < Len(conversation) \/ pc \notin {"blocks", "crashed"}

Registered(name) == \E i \in 1..Len(Tools) : Tools[i] = name

----------------------------------------------------------------------------
(* C1 *)

\* turn i + 1 is the one tool-result message answering model turn i: as many
\* results as invocations, their ids in the invocations' order, and the turn
\* after it, if any, is the model's again
AnsweredInOrder(i) ==
    /\ i + 1 <= Len(conversation)
    /\ IsToolResultTurn(conversation[i + 1])
    /\ IdsOf(conversation[i + 1].content) = IdsOf(ToolUsesOf(conversation[i]))
    /\ (i + 2 <= Len(conversation) => IsModelTurn(conversation[i + 2]))

\* C1: once the loop is through a model turn holding k >= 1 tool_use blocks
\* (so at every later runInference call), the turn right after it is one
\* user message of exactly k tool_result blocks whose ids follow the order of
\* the invocations, and no second such message follows it.
C1_OneResultTurnInOrder ==
    \A i \in DOMAIN conversation :
        (IsModelTurn(conversation[i]) /\ ToolUsesOf(conversation[i]) # <<>> /\ BatchDone(i))
            => AnsweredInOrder(i)

\* a runInference call is about to be made after a model turn of two invocations
C1_Witness ==
    /\ pc = "infer"
    /\ Len(conversation) = 3
    /\ Len(ToolUsesOf(conversation[2])) = 2
    /\ Len(conversation[3].content) = 2
    /\ conversation[3].content[1].id # conversation[3].content[2].id

----------------------------------------------------------------------------
(* C2 *)

\* the tool_result blocks of turn i carrying that id
ResultsFor(i, id) ==
    IF i > Len(conversation) THEN {}
    ELSE {j \in DOMAIN conversation[i].content :
            /\ conversation[i].content[j].type = "tool_result"
            /\ conversation[i].content[j].id = id}

\* C2: whenever Run is not in the middle of a reply's blocks (in particular
\* when it reads the human, and when the process has ended), every tool_use
\* block of the transcript has exactly one tool_result block with its id, in
\* the turn right after its own, and none anywhere else.
C2_EveryInvocationAnswered ==
    pc # "blocks" =>
        \A i \in DOMAIN conversation : \A b \in DOMAIN conversation[i].content :
            IsToolUse(conversation[i].content[b]) =>
                /\ Cardinality(ResultsFor(i + 1, conversation[i].content[b].id)) = 1
                /\ \A k \in DOMAIN conversation :
                     k # i + 1 => ResultsFor(k, conversation[i].content[b].id) = {}

----------------------------------------------------------------------------
(* C3 *)

\* the block the range loop is at is an invocation of an unregistered name
AtUnknownTool ==
    /\ pc = "blocks" /\ idx <= Len(message)
    /\ IsToolUse(message[idx])
    /\ ~Registered(message[idx].name)

\* C3: dispatching an unregistered name appends the block (id, "tool not
\* found", is_error) to the results, touches no file and leaves Run in its
\* loop; a crash of the loop is never at such a block; and the results of a
\* batch are appended as one user message after which Run skips the human and
\* calls the model.
C3_UnknownToolRecoverable ==
    [][ /\ AtUnknownTool =>
             /\ toolResults' = Append(toolResults,
                    NewToolResultBlock(message[idx].id, <<"tool not found">>, TRUE))
             /\ pc' = "blocks" /\ idx' = idx + 1
             /\ fs' = fs /\ conversation' = conversation /\ exitCode' = exitCode
        /\ (pc = "blocks" /\ pc' = "crashed") => Registered(message[idx].name)
        /\ (pc = "blocks" /\ pc' = "loop" /\ toolResults # <<>>) =>
             /\ conversation' = Append(conversation, NewUserMessage(toolResults))
             /\ readUserInput' = FALSE
        /\ (pc = "loop" /\ ~readUserInput) => (pc' = "infer" /\ calls' = calls)
      ]_vars

\* an unregistered name was answered, the model was called again and replied
\* without invocations, and the next line of the human was read
C3_Witness ==
    /\ Len(conversation) = 5
    /\ \E b \in DOMAIN conversation[2].content :
         /\ IsToolUse(conversation[2].content[b])
         /\ ~Registered(conversation[2].content[b].name)
    /\ \E j \in DOMAIN conversation[3].content :
         /\ conversation[3].content[j].text = <<"tool not found">>
         /\ conversation[3].content[j].is_error
    /\ ToolUsesOf(conversation[4]) = <<>>
    /\ IsHumanTurn(conversation[5])
    /\ Last(calls) = [op |-> "getUserMessage", ok |-> TRUE]

----------------------------------------------------------------------------
(* C4 *)

\* C4: no dispatch of a registered tool ends the process: every invocation
\* the loop has passed has its result block, a failed decode one with
\* is_error set.
C4_DispatchNeverFaults ==
    /\ pc # "crashed"
    /\ exitCode # 2
    /\ pc = "blocks" => Len(toolResults) = Len(ToolUsesOf([content |-> SubSeq(message, 1, idx - 1)]))

----------------------------------------------------------------------------
(* C5 *)

\* no model turn of the transcript holds a tool_use block
NoInvocationYet ==
    \A i \in DOMAIN conversation : ToolUsesOf(conversation[i]) = <<>>

\* the human turns completed so far: the lines read whose reply was processed
HumanTurns == NumCalls("getUserMessage", TRUE)

\* C5: as long as the model has returned no tool invocation and the gateway
\* has not failed, every time Run is back at the top of its loop after N
\* lines of the human the transcript has exactly 2N turns, human and model
\* in turn, and Run reads the human next (readUserInput is set); between a
\* line and its reply the transcript has 2N - 1 turns, and while the reply's
\* blocks are printed 2N, with no tool result pending and no crash.
C5_TwoTurnsPerHumanTurn ==
    (NoInvocationYet /\ gatewayErr = NoErr) =>
        /\ pc \in {"loop", "infer", "blocks", "returned", "exited"}
        /\ pc = "infer" => Len(conversation) = 2 * HumanTurns - 1
        /\ pc # "infer" => Len(conversation) = 2 * HumanTurns
        /\ pc = "loop" => readUserInput
        /\ pc = "blocks" => toolResults = <<>>
        /\ \A i \in DOMAIN conversation :
             IF i % 2 = 1 THEN IsHumanTurn(conversation[i])
             ELSE IsModelTurn(conversation[i])

\* two human turns are complete and Run is about to read the human again
C5_Witness ==
    /\ NoInvocationYet /\ gatewayErr = NoErr
    /\ pc = "loop"
    /\ HumanTurns = 2
    /\ Len(conversation) = 4

----------------------------------------------------------------------------
(* C6 *)

\* this step makes a runInference call
InferenceCalled == calls' # calls /\ Last(calls').op = "runInference"

\* a runInference call was made before
InferredBefore == \E i \in DOMAIN calls : calls[i].op = "runInference"

\* C6: no step of Run changes or removes a turn of the transcript (the old
\* transcript is a prefix of the new one), and each runInference call after
\* the first is passed a conversation of which the one passed to the call
\* before it is a strict prefix.
C6_AppendOnly ==
    [][ /\ IsPrefix(conversation, conversation')
        /\ (InferenceCalled /\ InferredBefore) =>
             (IsPrefix(sent, sent') /\ Len(sent) < Len(sent'))
      ]_vars

\* a second runInference call has been made, after a tool-result turn
C6_Witness ==
    /\ Len(calls) >= 3
    /\ Last(calls).op = "runInference"
    /\ calls[Len(calls) - 1].op = "runInference"
    /\ Len(sent) = 3
    /\ IsToolResultTurn(sent[3])

----------------------------------------------------------------------------
(* C7 *)

\* this step is a runInference call that returns an error
InferenceFailed ==
    calls' = Append(calls, [op |-> "runInference", ok |-> FALSE])

\* C7: the step in which runInference returns an error ends Run with that
\* error as its return value, appends no turn (the transcript stays the one
\* passed to the call), dispatches no tool and changes no file; and once Run
\* has returned, no call is made on the input or the gateway, no turn is
\* appended and no tool runs.
C7_GatewayErrorReturned ==
    [][ /\ InferenceFailed =>
             /\ pc' = "returned"
             /\ gatewayErr' \in GatewayErrors /\ ret' = gatewayErr'
             /\ conversation' = conversation /\ conversation' = sent'
             /\ toolResults' = toolResults /\ fs' = fs /\ stdout' = stdout
        /\ (pc' = "returned" /\ ret' # NoErr) => InferenceFailed
        /\ pc \in {"returned", "exited"} =>
             /\ calls' = calls /\ conversation' = conversation
             /\ toolResults' = toolResults /\ fs' = fs /\ ret' = ret
             /\ pc' = "exited"
      ]_vars

\* Run returned the gateway's error from a call that followed a tool-result turn
C7_Witness ==
    /\ pc = "returned"
    /\ ret \in GatewayErrors
    /\ Len(conversation) = 3
    /\ IsToolResultTurn(Last(conversation))
    /\ NumCalls("runInference", FALSE) = 1

\* Run returned the gateway's error from a call that followed a line of the human
C7_WitnessAfterHuman ==
    /\ pc = "returned"
    /\ ret \in GatewayErrors
    /\ conversation # <<>>
    /\ IsHumanTurn(Last(conversation))

----------------------------------------------------------------------------
(* C8 *)

\* this step is a getUserMessage call that reports the end of the input
InputEnded ==
    calls' = Append(calls, [op |-> "getUserMessage", ok |-> FALSE])

\* C8: the step in which getUserMessage reports the end of the input ends
\* Run with a nil error and appends no turn; after it no call is made on the
\* gateway or the input; and main prints no error line for it.
C8_EndOfInputIsClean ==
    [][ /\ InputEnded =>
             /\ pc' = "returned" /\ ret' = NoErr
             /\ conversation' = conversation /\ fs' = fs
        /\ (pc \in {"returned", "exited"} /\ ret = NoErr) =>
             /\ calls' = calls /\ conversation' = conversation
             /\ stdout' = stdout /\ ret' = NoErr
      ]_vars

\* the input ended after a completed exchange and the process is over
C8_Witness ==
    /\ pc = "exited"
    /\ Last(calls) = [op |-> "getUserMessage", ok |-> FALSE]
    /\ ret = NoErr
    /\ Len(conversation) >= 2

----------------------------------------------------------------------------
(* C9 *)

\* this step makes a getUserMessage call
InputCalled == calls' # calls /\ Last(calls').op = "getUserMessage"

\* the latest reply of the model, when one was received
LatestReply == conversation[Len(sent) + 1]

RepliedBefore == calls # <<>> /\ Last(calls) = [op |-> "runInference", ok |-> TRUE]

\* C9: getUserMessage is called only when nothing has happened yet or when
\* the call before it was a runInference whose reply, the transcript's last
\* turn, holds no tool_use block; and after a reply holding a tool_use block
\* the next call is runInference, made with the reply's tool-result message
\* as the last turn, no human turn having been added.
C9_HumanOnlyAfterPlainReply ==
    [][ /\ InputCalled =>
             \/ calls = <<>> /\ conversation = <<>>
             \/ /\ RepliedBefore
                /\ IsModelTurn(Last(conversation))
                /\ ToolUsesOf(Last(conversation)) = <<>>
        /\ (calls' # calls /\ RepliedBefore /\ ToolUsesOf(LatestReply) # <<>>) =>
             /\ InferenceCalled
             /\ Len(conversation) = Len(sent) + 2
             /\ IsToolResultTurn(Last(conversation))
             /\ sent' = conversation
      ]_vars

\* two runInference calls in a row: the second followed a reply with invocations
C9_Witness ==
    /\ Len(calls) = 3
    /\ calls[2] = [op |-> "runInference", ok |-> TRUE]
    /\ calls[3] = [op |-> "runInference", ok |-> TRUE]
    /\ ToolUsesOf(conversation[2]) # <<>>

----------------------------------------------------------------------------
(* C10 *)

\* C10: a process that ended on the end of the input exits with status 0
\* and no error line; one that ended on a gateway fault has printed the
\* error and exits with a status other than 0.
C10_ExitStatusTellsOutcome ==
    pc = "exited" =>
        /\ ret = NoErr => (exitCode = 0 /\ Last(stdout).tag # "Error")
        /\ ret \in GatewayErrors => (exitCode # 0 /\ Last(stdout) = ErrorLine(ret))

----------------------------------------------------------------------------
(* The block loop on its own: Run has just received a reply made of tool    *)
(* invocations, over a wider range of inputs and working directories than   *)
(* Spec's gateway produces.                                                 *)

\* length of the strings in tool inputs and files
MaxStrLen == 2
\* times one invocation is repeated in a reply
MaxRepeat == 2

Alphabet == {"a", "b"}

Strs == UNION {[1..l -> Alphabet] : l \in 0..MaxStrLen}

NoFiles == [q \in {} |-> Dir]

\* a directory holding exactly the subdirectory sub/ and the file a.txt
ExampleFS == (<<>> :> Dir) @@ (<<"sub">> :> Dir) @@ (<<"a.txt">> :> File(<<"a">>))

\* working directories: f missing or a file, d missing, empty or holding d/f
\* a content in which the occurrences of "aa" overlap
Overlapping == <<"a", "a", "a">>

WorkingDirs ==
    {(<<>> :> Dir) @@ fpart @@ dpart :
        fpart \in {NoFiles} \cup {(<<"f">> :> File(c)) : c \in Strs \cup {Overlapping}},
        dpart \in {NoFiles, (<<"d">> :> Dir),
                   (<<"d">> :> Dir) @@ (<<"d", "f">> :> File(<<"a">>))}}
    \cup {ExampleFS}

\* "", "f", "d", "d/f" and "f/f"
FilePaths == {<<>>, <<"f">>, <<"d">>, <<"d", "f">>, <<"f", "f">>}

\* ".", "d", "f", "sub" and "d/f"
ListPaths == {<<".">>, <<"d">>, <<"f">>, <<"sub">>, <<"d", "f">>}

EditInvocations ==
    {[name |-> "edit_file", input |-> RawObject(JString(p), JString(o), JString(n))] :
        p \in FilePaths, o \in Strs, n \in Strs}

ReadInvocation(p) == [name |-> "read_file", input |-> RawObject(JString(p), JAbsent, JAbsent)]

Invocations ==
    EditInvocations
    \cup {ReadInvocation(p) : p \in FilePaths}
    \cup {[name |-> "list_files", input |-> RawObject(JString(p), JAbsent, JAbsent)] :
            p \in ListPaths}
    \cup {[name |-> "list_files", input |-> RawObject(JAbsent, JAbsent, JAbsent)]}
    \cup {[name |-> n, input |-> i] : n \in {"read_file", "list_files", "edit_file"},
                                      i \in {BadInput, RawArray}}
    \cup {[name |-> "no_such_tool", input |-> GoodInput]}

\* the replies: one invocation, repeated up to MaxRepeat times, or an edit
\* followed by a read of the same path
Batches ==
    {[i \in 1..n |-> c] : c \in Invocations, n \in 1..MaxRepeat}
    \cup {<<c, ReadInvocation(c.input.path.v)>> : c \in EditInvocations}

BatchReply(batch) == [i \in DOMAIN batch |-> ToolUseBlock(i, batch[i].name, batch[i].input)]

ToolsInit ==
    /\ message \in {BatchReply(b) : b \in Batches}
    /\ conversation = <<NewUserMessage(<<TextBlock(<<"h">>)>>), ToParam(message)>>
    /\ sent = <<NewUserMessage(<<TextBlock(<<"h">>)>>)>>
    /\ calls = <<[op |-> "getUserMessage", ok |-> TRUE], [op |-> "runInference", ok |-> TRUE]>>
    /\ fs \in WorkingDirs
    /\ readUserInput = TRUE
    /\ pc = "blocks"
    /\ idx = 1
    /\ toolResults = <<>>
    /\ ret = Running
    /\ stdout = <<Banner, Prompt>>
    /\ exitCode = -1
    /\ nextId = Len(message) + 1
    /\ gatewayErr = NoErr

ToolsNext ==
    \/ ExecuteTool
    \/ EndOfBlocks

SpecTools == ToolsInit /\ [][ToolsNext]_vars

----------------------------------------------------------------------------
(* Reading an invocation *)

\* the range loop is at an invocation of that tool
AtInvocation(name) ==
    /\ pc = "blocks" /\ idx <= Len(message)
    /\ IsToolUse(message[idx])
    /\ message[idx].name = name

\* the fields of the invocation the loop is at, as EditFile decodes them
EditInput == UnmarshalEdit(message[idx].input[1])

\* the invocation's path names a regular file of the working directory
OnExistingFile ==
    /\ EditInput.Path # <<>>
    /\ Exists(fs, Clean(EditInput.Path))
    /\ fs[Clean(EditInput.Path)].kind = "file"

\* old occurs in s
Occurs(old, s) ==
    \E i \in 1..(Len(s) - Len(old) + 1) : SubSeq(s, i, i + Len(old) - 1) = old

\* this step appends that result for the invocation the loop is at
Answers(content, isError) ==
    toolResults' = Append(toolResults,
                          NewToolResultBlock(message[idx].id, content, isError))

----------------------------------------------------------------------------
(* C11 *)

\* C11: an edit_file invocation whose old_str is non-empty and equal to its
\* new_str is answered with the error "invalid input parameters", whatever
\* the working directory holds at its path (a file, a directory, nothing),
\* and leaves the working directory as it was.
C11_EqualStringsRejected ==
    [][ (/\ AtInvocation("edit_file")
         /\ ~EditInput.err
         /\ EditInput.OldStr # <<>>
         /\ EditInput.OldStr = EditInput.NewStr)
        => (Answers(<<"invalid input parameters">>, TRUE) /\ fs' = fs)
      ]_vars

\* such an invocation on a path that holds a file has been answered
C11_Witness ==
    /\ Len(toolResults) >= 1
    /\ message[1].name = "edit_file"
    /\ UnmarshalEdit(message[1].input[1]).OldStr = <<"a">>
    /\ UnmarshalEdit(message[1].input[1]).NewStr = <<"a">>
    /\ Exists(fs, UnmarshalEdit(message[1].input[1]).Path)
    /\ fs[UnmarshalEdit(message[1].input[1]).Path] = File(<<"a", "b">>)
    /\ toolResults[1].text = <<"invalid input parameters">>
    /\ toolResults[1].is_error

----------------------------------------------------------------------------
(* C12 *)

\* C12 as claimed: an edit_file invocation on an existing file whose content
\* does not contain its non-empty old_str is answered with the error
\* "old_str not found in file" and leaves the file as it was.
C12_AsClaimed ==
    [][ (/\ AtInvocation("edit_file")
         /\ ~EditInput.err
         /\ OnExistingFile
         /\ EditInput.OldStr # <<>>
         /\ ~Occurs(EditInput.OldStr, fs[Clean(EditInput.Path)].content))
        => (Answers(<<"old_str not found in file">>, TRUE) /\ fs' = fs)
      ]_vars

\* C12, amended: the same for an old_str that also differs from new_str (an
\* old_str equal to new_str is answered "invalid input parameters"); as the
\* working directory is unchanged, repeating the invocation gives the same
\* error and the same contents each time.
C12_NotFoundLeavesFile ==
    [][ (/\ AtInvocation("edit_file")
         /\ ~EditInput.err
         /\ OnExistingFile
         /\ EditInput.OldStr # <<>>
         /\ EditInput.OldStr # EditInput.NewStr
         /\ ~Occurs(EditInput.OldStr, fs[Clean(EditInput.Path)].content))
        => (Answers(<<"old_str not found in file">>, TRUE) /\ fs' = fs)
      ]_vars

\* the failing invocation was made twice in a row, with the same answer, and
\* the file still holds its content
C12_Witness ==
    /\ Len(toolResults) = 2
    /\ message[1].name = "edit_file"
    /\ message[2].name = "edit_file"
    /\ message[1].input = message[2].input
    /\ UnmarshalEdit(message[1].input[1]).Path = <<"f">>
    /\ UnmarshalEdit(message[1].input[1]).OldStr = <<"b">>
    /\ Exists(fs, <<"f">>)
    /\ fs[<<"f">>] = File(<<"a", "a">>)
    /\ toolResults[1].text = <<"old_str not found in file">>
    /\ toolResults[2].text = <<"old_str not found in file">>
    /\ toolResults[1].is_error /\ toolResults[2].is_error

----------------------------------------------------------------------------
(* C13 *)

\* the invocation the loop is at asks to create a file: decodable, a
\* non-empty path that names nothing, an empty old_str
AtCreate ==
    /\ AtInvocation("edit_file")
    /\ ~EditInput.err
    /\ EditInput.Path # <<>>
    /\ ~Exists(fs, Clean(EditInput.Path))
    /\ EditInput.OldStr = <<>>

\* this step creates the file with new_str, makes its missing parent
\* directories, touches nothing else and answers with the confirmation
Creates ==
    LET p == Clean(EditInput.Path) IN
    /\ Exists(fs', p) /\ fs'[p] = File(EditInput.NewStr)
    /\ \A n \in 0..(Len(p) - 1) :
          Exists(fs', SubSeq(p, 1, n)) /\ fs'[SubSeq(p, 1, n)] = Dir
    /\ \A q \in DOMAIN fs : Exists(fs', q) /\ fs'[q] = fs[q]
    /\ Answers(<<"Successfully created file">> \o EditInput.Path, FALSE)

\* the invocation the loop is at reads the path the invocation before it
\* created
AtReadBack ==
    /\ AtInvocation("read_file")
    /\ idx > 1
    /\ message[idx - 1].name = "edit_file"
    /\ ~UnmarshalEdit(message[idx - 1].input[1]).err
    /\ UnmarshalPath(message[idx].input[1]).Path
         = UnmarshalEdit(message[idx - 1].input[1]).Path
    /\ Len(toolResults) = idx - 1
    /\ toolResults[idx - 1].text
         = <<"Successfully created file">> \o UnmarshalEdit(message[idx - 1].input[1]).Path
    /\ ~toolResults[idx - 1].is_error

\* C13 as claimed: an edit_file invocation with a path that does not exist
\* and an empty old_str creates the file with contents new_str, creating the
\* missing parent directories, and answers with the creation confirmation.
C13_AsClaimed ==
    [][ AtCreate => Creates ]_vars

\* C13, amended: an edit_file invocation with a path that does not exist and
\* has no regular file among its parent components, an empty old_str and a
\* non-empty new_str creates the file with contents new_str, creating the
\* missing parent directories, and answers with the creation confirmation,
\* not an error; a read_file of the same path that follows returns new_str.
C13_CreateThenReadBack ==
    [][ /\ (/\ AtCreate
            /\ EditInput.NewStr # <<>>
            /\ ~FileInTheWay(fs, Clean(EditInput.Path)))
           => Creates
        /\ AtReadBack
           => (/\ Answers(UnmarshalEdit(message[idx - 1].input[1]).NewStr, FALSE)
               /\ fs' = fs)
      ]_vars

\* d/f was created under a directory that did not exist and read back
C13_Witness ==
    /\ Len(toolResults) = 2
    /\ message[1].name = "edit_file"
    /\ message[2].name = "read_file"
    /\ UnmarshalEdit(message[1].input[1]).Path = <<"d", "f">>
    /\ UnmarshalEdit(message[1].input[1]).OldStr = <<>>
    /\ UnmarshalEdit(message[1].input[1]).NewStr = <<"a", "b">>
    /\ toolResults[1].text = <<"Successfully created file", "d", "f">>
    /\ ~toolResults[1].is_error
    /\ toolResults[2].text = <<"a", "b">>
    /\ ~toolResults[2].is_error
    /\ Exists(fs, <<"d">>) /\ Exists(fs, <<"d", "f">>)
    /\ fs[<<"d">>] = Dir
    /\ fs[<<"d", "f">>] = File(<<"a", "b">>)

----------------------------------------------------------------------------
(* C14 *)

\* the path of the invocation the loop is at, as ListFiles decodes it
ListInput == UnmarshalPath(message[idx].input[1])

\* the directory ListFiles walks: the path, "." when it is omitted
ListRoot == Clean(IF ListInput.Path # <<>> THEN ListInput.Path ELSE <<".">>)

\* the invocation the loop is at lists an existing directory
AtListDir ==
    /\ AtInvocation("list_files")
    /\ ~ListInput.err
    /\ Exists(fs, ListRoot)
    /\ fs[ListRoot].kind = "dir"

\* the paths below the listed directory, relative to it
EntriesBelow ==
    {SubSeq(q, Len(ListRoot) + 1, Len(q)) :
        q \in {r \in DOMAIN fs : Len(r) > Len(ListRoot)
                                 /\ SubSeq(r, 1, Len(ListRoot)) = ListRoot}}

\* an entry as the array names it
EntryName(c) ==
    JoinPath(c) \o (IF fs[ListRoot \o c].kind = "dir" THEN <<"/">> ELSE <<>>)

\* text is a JSON array of strings holding exactly the entries below the
\* listed directory, directories suffixed with "/", without "."
IsListing(text) ==
    /\ text # <<>>
    /\ Head(text) = "["
    /\ text[Len(text)] = "]"
    /\ \A c \in EntriesBelow : Occurs(<<"\"">> \o EntryName(c) \o <<"\"">>, text)
    /\ Cardinality({i \in DOMAIN text : text[i] = "\""}) = 2 * Cardinality(EntriesBelow)
    /\ ~Occurs(<<"\"", ".", "\"">>, text)

\* C14: a list_files invocation on an existing directory (path "." when
\* omitted) is answered, not as an error, with a JSON array of the entries
\* relative to the path, every directory entry suffixed with "/" and "."
\* absent; a directory holding exactly sub/ and a.txt gives a two-element
\* array containing "sub/" and "a.txt".
C14_ListingIsJsonArray ==
    [][ AtListDir
        => \E text \in {executeTool(fs, message[idx].id, "list_files",
                                    message[idx].input[1]).result.text} :
              /\ Answers(text, FALSE)
              /\ IsListing(text)
              /\ (fs = ExampleFS /\ ListRoot = <<>>)
                 => /\ Occurs(<<"\"", "sub", "/", "\"">>, text)
                    /\ Occurs(<<"\"", "a.txt", "\"">>, text)
                    /\ Cardinality({i \in DOMAIN text : text[i] = "\""}) = 4
      ]_vars

----------------------------------------------------------------------------
(* C17 *)

\* the path of the invocation the loop is at, as ReadFile decodes it
ReadInput == UnmarshalPath(message[idx].input[1])

\* C17: for an invocation of a registered tool whose function returns, the
\* result appended carries the invocation's id, and the function's output
\* with is_error false when it returned no error, the error's message with
\* is_error true when it returned one: a read_file of an existing file
\* gives its content, of a missing file the "no such file" error.
C17_ResultMirrorsOutcome ==
    [][ /\ \A i \in 1..Len(Tools) :
              (/\ AtInvocation(Tools[i])
               /\ ~ToolFunction(Tools[i], fs, message[idx].input[1]).panic)
              => LET r == ToolFunction(Tools[i], fs, message[idx].input[1])
                 IN  /\ toolResults' = Append(toolResults,
                            [type |-> "tool_result", text |-> r.out,
                             id |-> message[idx].id, name |-> "",
                             input |-> <<>>, is_error |-> r.err])
                     /\ fs' = r.fs
        /\ (AtInvocation("read_file") /\ ~ReadInput.err /\ ReadInput.Path # <<>>)
           => LET p == Clean(ReadInput.Path) IN
              /\ (Exists(fs, p) /\ fs[p].kind = "file")
                 => Answers(fs[p].content, FALSE)
              /\ (~Exists(fs, p) /\ ~FileInTheWay(fs, p))
                 => Answers(ErrNotExist(ReadInput.Path), TRUE)
      ]_vars

\* a batch of two reads of a missing file, both answered with the error
\* under their own ids
C17_Witness ==
    /\ Len(toolResults) = 2
    /\ message[1].name = "read_file" /\ message[2].name = "read_file"
    /\ ~Exists(fs, <<"f">>)
    /\ toolResults[1].id = message[1].id /\ toolResults[2].id = message[2].id
    /\ toolResults[1].id # toolResults[2].id
    /\ toolResults[1].text = ErrNotExist(<<"f">>)
    /\ toolResults[2].text = ErrNotExist(<<"f">>)
    /\ toolResults[1].is_error /\ toolResults[2].is_error

----------------------------------------------------------------------------
(* C18 *)

RECURSIVE EveryOccurrenceReplaced(_, _, _, _)
\* s from position i on, with each occurrence of old met scanning left to
\* right replaced by new, the scan resuming after the occurrence
EveryOccurrenceReplaced(s, i, old, new) ==
    IF i > Len(s) THEN <<>>
    ELSE IF i + Len(old) - 1 <= Len(s) /\ SubSeq(s, i, i + Len(old) - 1) = old
    THEN new \o EveryOccurrenceReplaced(s, i + Len(old), old, new)
    ELSE <<s[i]>> \o EveryOccurrenceReplaced(s, i + 1, old, new)

\* this step writes the file of the invocation with every occurrence
\* replaced, leaves the rest alone and answers "OK"
ReplacesAll ==
    LET p == Clean(EditInput.Path) IN
    /\ fs' = [fs EXCEPT ![p] = File(EveryOccurrenceReplaced(fs[p].content, 1,
                                        EditInput.OldStr, EditInput.NewStr))]
    /\ Answers(<<"OK">>, FALSE)

\* the invocation the loop is at edits an existing file that contains its
\* non-empty old_str
AtReplace ==
    /\ AtInvocation("edit_file")
    /\ ~EditInput.err
    /\ OnExistingFile
    /\ EditInput.OldStr # <<>>
    /\ Occurs(EditInput.OldStr, fs[Clean(EditInput.Path)].content)

\* C18 as claimed: an edit_file invocation on an existing file that contains
\* its non-empty old_str once or more replaces every non-overlapping
\* occurrence, writes the result back and answers "OK".
C18_AsClaimed ==
    [][ AtReplace => ReplacesAll ]_vars

\* C18, amended: the same for an old_str that differs from new_str; several
\* matches are all replaced, they are not an error.
C18_ReplacesEveryOccurrence ==
    [][ (AtReplace /\ EditInput.OldStr # EditInput.NewStr) => ReplacesAll ]_vars

\* "aaa" edited with old_str "aa": the first occurrence went, the scan
\* resumed after it, and the answer was "OK"
C18_Witness ==
    /\ Len(toolResults) = 1
    /\ Len(message) = 1
    /\ message[1].name = "edit_file"
    /\ UnmarshalEdit(message[1].input[1]).Path = <<"f">>
    /\ UnmarshalEdit(message[1].input[1]).OldStr = <<"a", "a">>
    /\ UnmarshalEdit(message[1].input[1]).NewStr = <<"b">>
    /\ toolResults[1].text = <<"OK">>
    /\ ~toolResults[1].is_error
    /\ Exists(fs, <<"f">>)
    /\ fs[<<"f">>] = File(<<"b", "a">>)

----------------------------------------------------------------------------
(* C16 *)

\* the number of tool_use blocks among the first n blocks of the message
ToolUsesBefore(n) ==
    Cardinality({j \in 1..n : IsToolUse(message[j])})

\* C16: within one model turn each invocation is run when the loop reaches
\* its block, with the results of all the invocations before it already
\* appended, on the file system the one before it left, and its own result
\* and file system are in place when the loop moves to the next block (a
\* read_file after an edit_file of the same path returns the edited
\* content); no such step calls the gateway or reads the input, and no call
\* of the gateway or the input is made inside the loop or changes the file
\* system.
C16_InvocationsInTurnOrder ==
    [][ /\ (/\ pc = "blocks" /\ idx <= Len(message)
            /\ IsToolUse(message[idx])
            /\ pc' # "crashed")
           => LET r == executeTool(fs, message[idx].id, message[idx].name,
                                   message[idx].input[1])
              IN  /\ Len(toolResults) = ToolUsesBefore(idx - 1)
                  /\ toolResults' = Append(toolResults, r.result)
                  /\ fs' = r.fs
                  /\ idx' = idx + 1
                  /\ calls' = calls
        /\ (/\ AtInvocation("read_file") /\ idx > 1
            /\ message[idx - 1].name = "edit_file"
            /\ message[idx - 1].input = message[idx].input
            /\ Last(toolResults).text = <<"OK">>)
           => Answers(Replace(InitialFS[<<"f">>].content, <<"a">>, <<"b">>), FALSE)
        /\ calls' # calls => (pc \in {"loop", "infer"} /\ fs' = fs)
      ]_vars

\* one turn edited f and then read it: the read returned the new content
C16_Witness ==
    /\ pc = "blocks"
    /\ Len(message) = 2 /\ idx = 3
    /\ message[1].name = "edit_file" /\ message[2].name = "read_file"
    /\ Len(toolResults) = 2
    /\ toolResults[1].text = <<"OK">>
    /\ toolResults[2].text = <<"b">>
    /\ Exists(fs, <<"f">>)
    /\ fs[<<"f">>] = File(<<"b">>)

----------------------------------------------------------------------------
(* C19 *)

\* user-role turns at the odd positions, model turns at the even ones
Alternates(turns) ==
    \A i \in DOMAIN turns :
        turns[i].role = (IF i % 2 = 1 THEN "user" ELSE "assistant")

\* C19: in every state the transcript alternates, user-role turns (human
\* text or tool results) at positions 1, 3, 5, ... and model turns at 2, 4,
\* 6, ...; whenever runInference is about to be called, and in every call
\* made, the transcript is non-empty and its last turn is a user-role turn.
C19_RolesAlternate ==
    /\ Alternates(conversation)
    /\ pc = "infer" => (conversation # <<>> /\ Last(conversation).role = "user")
    /\ InferredBefore => (/\ sent # <<>>
                          /\ Last(sent).role = "user"
                          /\ Alternates(sent))

\* a second runInference call was made on human, model, tool results
C19_Witness ==
    /\ Len(conversation) = 4
    /\ Len(sent) = 3
    /\ IsHumanTurn(conversation[1])
    /\ IsModelTurn(conversation[2])
    /\ IsToolResultTurn(conversation[3])
    /\ IsModelTurn(conversation[4])

----------------------------------------------------------------------------
(* C20 *)

\* C20: when Run has returned nil, the transcript is empty or ends with a
\* model turn without tool_use blocks: never with an unanswered invocation,
\* never with a turn of tool results or a line of the human.
C20_CleanEndAfterPlainReply ==
    (pc \in {"returned", "exited"} /\ ret = NoErr)
    => \/ conversation = <<>>
       \/ /\ IsModelTurn(Last(conversation))
          /\ ToolUsesOf(Last(conversation)) = <<>>

\* Run returned nil after a chain: human, invocation, results, plain reply
C20_Witness ==
    /\ pc = "returned" /\ ret = NoErr
    /\ Len(conversation) = 4
    /\ ToolUsesOf(conversation[2]) # <<>>
    /\ IsToolResultTurn(conversation[3])
    /\ ToolUsesOf(conversation[4]) = <<>>

----------------------------------------------------------------------------
(* Chains of tool turns: a gateway that never fails, a model that replies
   with one block at a time, and a scheduler that lets Run take its steps *)

MaxChain == 4

\* replies of one block: a text, or a read_file or edit_file invocation
ChainShapes ==
    {<<b>> : b \in {c \in BlockChoices :
                       c.type = "text" \/ c.name \in {"read_file", "edit_file"}}}

\* runInference returns a message: it is appended and its blocks are ranged over
ChainInference ==
    /\ pc = "infer"
    /\ NumCalls("runInference", TRUE) < MaxChain
    /\ \E shape \in ChainShapes :
         /\ message' = Reply(shape, nextId)
         /\ nextId' = nextId + NumToolUses(shape)
    /\ conversation' = Append(conversation, ToParam(message'))
    /\ sent' = conversation
    /\ gatewayErr' = NoErr
    /\ calls' = Append(calls, [op |-> "runInference", ok |-> TRUE])
    /\ toolResults' = <<>>
    /\ idx' = 1
    /\ pc' = "blocks"
    /\ UNCHANGED <<readUserInput, ret, fs, stdout, exitCode>>

ChainNext ==
    \/ GetUserMessage
    \/ SkipUserInput
    \/ ChainInference
    \/ PrintText
    \/ ExecuteTool
    \/ EndOfBlocks

\* Run is one goroutine: each of its steps is taken once it is enabled, and
\* the gateway answers every call; the human may never type
SpecChain ==
    /\ Init /\ [][ChainNext]_vars
    /\ WF_vars(SkipUserInput)
    /\ WF_vars(ChainInference)
    /\ WF_vars(PrintText)
    /\ WF_vars(ExecuteTool)
    /\ WF_vars(EndOfBlocks)

----------------------------------------------------------------------------
(* C15 *)

\* every reply of the model so far holds a tool_use block
EveryReplyUsesTools ==
    \A i \in DOMAIN conversation :
        IsModelTurn(conversation[i]) => ToolUsesOf(conversation[i]) # <<>>

\* Run is ranging over a reply that holds a tool_use block
InToolTurn == pc = "blocks" /\ ToolUsesOf(Last(conversation)) # <<>>

\* Run is ranging over a reply that holds no tool_use block
InPlainTurn == pc = "blocks" /\ ToolUsesOf(Last(conversation)) = <<>>

\* Run is at the top of its loop and will read the human
SolicitsHuman == pc = "loop" /\ readUserInput

\* C15: as long as every reply of the model holds a tool invocation the
\* human is asked for nothing after the first line, and each such reply is
\* followed by Run being at the next call of the model, whatever the number
\* of turns before it (no iteration cap); with a gateway that does not
\* fail, a reply without tool invocations is followed by Run soliciting the
\* human again.
C15_ChainsRunOnAndHandBack ==
    /\ [](EveryReplyUsesTools => Len(SelectSeq(calls, LAMBDA c : c.op = "getUserMessage")) <= 1)
    /\ InToolTurn ~> (pc = "infer")
    /\ InPlainTurn ~> SolicitsHuman

----------------------------------------------------------------------------
(* A gateway that replies with text blocks only, or fails *)

TextTexts == {<<"t">>, <<"u">>}

\* replies of up to MaxBlocks text blocks
TextShapes ==
    UNION {[1..l -> [type : {"text"}, text : TextTexts, name : {""}, input : {<<>>}]] :
              l \in 0..MaxBlocks}

\* runInference returns a message: it is appended and its blocks are ranged over
TextInference ==
    /\ pc = "infer"
    /\ NumCalls("runInference", TRUE) < MaxInferences
    /\ \E shape \in TextShapes :
         /\ message' = Reply(shape, nextId)
         /\ nextId' = nextId + NumToolUses(shape)
    /\ conversation' = Append(conversation, ToParam(message'))
    /\ sent' = conversation
    /\ gatewayErr' = NoErr
    /\ calls' = Append(calls, [op |-> "runInference", ok |-> TRUE])
    /\ toolResults' = <<>>
    /\ idx' = 1
    /\ pc' = "blocks"
    /\ UNCHANGED <<readUserInput, ret, fs, stdout, exitCode>>

\* the steps Run with tools takes with such a gateway
TextNext ==
    \/ GetUserMessage
    \/ EndOfInput
    \/ TextInference
    \/ InferenceFails
    \/ PrintText
    \/ EndOfBlocks
    \/ MainReturns

SpecText == Init /\ [][TextNext]_vars

----------------------------------------------------------------------------
(* Run without tools: no readUserInput, no toolResults, no file system *)

\* requestPrompt, getUserMessage returns ok = true: the line is appended
PlainGetUserMessage ==
    /\ pc = "loop"
    /\ NumCalls("getUserMessage", TRUE) < MaxInputs
    /\ \E userInput \in UserInputs :
         conversation' = Append(conversation, NewUserMessage(<<TextBlock(userInput)>>))
    /\ stdout' = Append(stdout, Prompt)
    /\ calls' = Append(calls, [op |-> "getUserMessage", ok |-> TRUE])
    /\ pc' = "infer"
    /\ UNCHANGED <<readUserInput, message, idx, toolResults, ret, fs, exitCode, nextId,
                   sent, gatewayErr>>

\* getUserMessage returns ok = false: break, return nil
PlainEndOfInput ==
    /\ pc = "loop"
    /\ stdout' = Append(stdout, Prompt)
    /\ calls' = Append(calls, [op |-> "getUserMessage", ok |-> FALSE])
    /\ ret' = NoErr
    /\ pc' = "returned"
    /\ UNCHANGED <<conversation, readUserInput, message, idx, toolResults, fs, exitCode,
                   nextId, sent, gatewayErr>>

\* runInference returns a message: it is appended and its blocks are ranged over
PlainInference ==
    /\ pc = "infer"
    /\ NumCalls("runInference", TRUE) < MaxInferences
    /\ \E shape \in TextShapes : message' = Reply(shape, nextId)
    /\ conversation' = Append(conversation, ToParam(message'))
    /\ sent' = conversation
    /\ gatewayErr' = NoErr
    /\ calls' = Append(calls, [op |-> "runInference", ok |-> TRUE])
    /\ idx' = 1
    /\ pc' = "blocks"
    /\ UNCHANGED <<readUserInput, toolResults, ret, fs, stdout, exitCode, nextId>>

\* runInference returns an error: Run returns it
PlainInferenceFails ==
    /\ pc = "infer"
    /\ \E e \in GatewayErrors : gatewayErr' = e /\ ret' = e
    /\ sent' = conversation
    /\ calls' = Append(calls, [op |-> "runInference", ok |-> FALSE])
    /\ pc' = "returned"
    /\ UNCHANGED <<conversation, readUserInput, message, idx, toolResults, fs, stdout,
                   exitCode, nextId>>

\* case "text"
PlainPrintText ==
    /\ pc = "blocks" /\ idx <= Len(message)
    /\ message[idx].type = "text"
    /\ stdout' = Append(stdout, Response(message[idx].text))
    /\ idx' = idx + 1
    /\ UNCHANGED <<conversation, readUserInput, pc, message, toolResults, ret, fs, exitCode,
                   nextId, calls, sent, gatewayErr>>

\* default: a block that is not text is ignored
PlainIgnoreBlock ==
    /\ pc = "blocks" /\ idx <= Len(message)
    /\ message[idx].type # "text"
    /\ idx' = idx + 1
    /\ UNCHANGED <<conversation, readUserInput, pc, message, toolResults, ret, fs, stdout,
                   exitCode, nextId, calls, sent, gatewayErr>>

\* after the range loop: the next iteration
PlainEndOfBlocks ==
    /\ pc = "blocks" /\ idx > Len(message)
    /\ pc' = "loop"
    /\ UNCHANGED <<conversation, readUserInput, message, idx, toolResults, ret, fs, stdout,
                   exitCode, nextId, calls, sent, gatewayErr>>

\* main: report Run's error, if any, and return
PlainMainReturns ==
    /\ pc = "returned"
    /\ stdout' = IF ret # NoErr THEN Append(stdout, ErrorLine(ret)) ELSE stdout
    /\ exitCode' = 0
    /\ pc' = "exited"
    /\ UNCHANGED <<conversation, readUserInput, message, idx, toolResults, ret, fs, nextId,
                   calls, sent, gatewayErr>>

PlainNext ==
    \/ PlainGetUserMessage
    \/ PlainEndOfInput
    \/ PlainInference
    \/ PlainInferenceFails
    \/ PlainPrintText
    \/ PlainIgnoreBlock
    \/ PlainEndOfBlocks
    \/ PlainMainReturns

----------------------------------------------------------------------------
(* C21 *)

\* C21: with a gateway that replies with text blocks only or fails, Run with
\* tools and Run without tools take the same steps from the same start:
\* every step of Run with tools is a step of Run without tools, every step
\* Run without tools can take is one Run with tools can take, and the steps
\* of Run with tools that skip the human or execute a tool are never
\* enabled; so the two make the same input reads and gateway calls (calls,
\* sent), print the same lines (stdout), build the same transcript
\* (conversation) and return the same value (ret).
C21_VariantsAgreeOnText ==
    /\ [][PlainNext]_vars
    /\ [](~ENABLED (PlainNext /\ ~TextNext))
    /\ [](~ENABLED SkipUserInput /\ ~ENABLED ExecuteTool)

\* two lines of the human, each answered with two texts, then end of input
C21_Witness ==
    /\ pc = "exited" /\ ret = NoErr
    /\ Len(conversation) = 4
    /\ Len(conversation[2].content) = 2
    /\ conversation[2].content[1].text # conversation[2].content[2].text
    /\ Len(conversation[4].content) = 2
    /\ Len(SelectSeq(stdout, LAMBDA l : l.tag = "Claude")) = 4
    /\ Len(calls) = 5

====
